---------------------------- MODULE Spec2Model ----------------------------
(***************************************************************************)
(* Model of go-vdfloc: the plural/gender grammar validator                 *)
(* (pluralgender.go) and the encoding sniffer / transcoding writer         *)
(* (utils.go).                                                             *)
(*                                                                         *)
(* Strings are sequences of one-character strings, byte streams are        *)
(* sequences of numbers 0..255.  An issue string is modelled as a tuple:   *)
(* <<>> is the empty string (no issue), any other tuple is a message, its  *)
(* first element naming the format string and the others its arguments.    *)
(***************************************************************************)
EXTENDS Integers, Sequences, FiniteSets, TLC

VARIABLES
    conf,      \* what the profile provider answers for the language validated
    pc,        \* "idle" before the call, "done" after it
    op,        \* the function called
    token,     \* its token name (for FilterPlrGdr: the slice of names)
    val,       \* its token value
    res,       \* the issue returned (for FilterPlrGdr: the slice returned)
    err,       \* the error returned
    called,    \* the check CheckPlrlGendrTokenVal dispatched to, "none" if none
    file,      \* the bytes of the file read by UTFReader, written by UTF8Enc
    sinkOk,    \* whether a write to the file succeeds
    u,         \* the UTF8Enc instance: its utfEncoder
    written,   \* the buffers passed to the Write calls that succeeded, in order
    nWritten,  \* the number of bytes the last Write returned
    encodingName, \* the encodingName passed to NewUTFConvWriter
    explicitName, \* the encodingName passed to UTFReader
    reader,    \* the reader UTFReader returned
    encodingFound, \* the encoding UTFReader returned
    content    \* the bytes read from r up to its end

gvars == <<conf, token, val, res, called>>

evars == <<file, sinkOk, u, written, nWritten, encodingName, explicitName,
          reader, encodingFound, content>>

vars == <<conf, pc, op, token, val, res, err, called,
          file, sinkOk, u, written, nWritten, encodingName, explicitName,
          reader, encodingFound, content>>

(***************************************************************************)
(* Bounds of the model.                                                    *)
(***************************************************************************)
\* longest token value, in pieces (a piece is a tag or a text fragment)
MaxPieces == 4
\* largest plural-form count of a profile
MaxPlural == 2
\* longest token name, in pieces
MaxTokPieces == 4
\* longest file given to UTFReader, in pieces (a piece is a BOM or a rune)
MaxFilePieces == 3
\* most Write calls that succeed on one UTF8Enc
MaxWrites == 2

(***************************************************************************)
(* Go strings package, as sequences of characters.                         *)
(***************************************************************************)
\* s[i:] with a 0-based byte offset i
SliceFrom(s, i) == SubSeq(s, i + 1, Len(s))

\* whether sub starts at 0-based offset i of s
MatchAt(s, sub, i) ==
    /\ i + Len(sub) <= Len(s)
    /\ \A j \in 1..Len(sub) : s[i + j] = sub[j]

\* strings.Index: offset of the first instance of sub in s, -1 if absent
Index(s, sub) ==
    LET hits == {i \in 0..Len(s) : MatchAt(s, sub, i)}
    IN  IF hits = {} THEN -1
        ELSE CHOOSE i \in hits : \A j \in hits : i <= j

\* strings.Contains
Contains(s, sub) == Index(s, sub) >= 0

\* strings.Count: number of non-overlapping instances of (non-empty) sub in s
RECURSIVE Count(_, _)
Count(s, sub) ==
    LET i == Index(s, sub)
    IN  IF i < 0 THEN 0 ELSE 1 + Count(SliceFrom(s, i + Len(sub)), sub)

\* strings.HasSuffix
HasSuffix(s, suffix) ==
    /\ Len(s) >= Len(suffix)
    /\ SubSeq(s, Len(s) - Len(suffix) + 1, Len(s)) = suffix

(***************************************************************************)
(* Package-level tables set by init().                                     *)
(***************************************************************************)
TagF  == <<"#", "|", "f", "|", "#">>
TagN  == <<"#", "|", "n", "|", "#">>
TagC  == <<"#", "|", "c", "|", "#">>
TagM  == <<"#", "|", "m", "|", "#">>
TagMa == <<"#", "|", "m", "a", "|", "#">>
TagMi == <<"#", "|", "m", "i", "|", "#">>
TagMp == <<"#", "|", "m", "p", "|", "#">>

genderTags == <<TagF, TagN, TagC, TagM, TagMa, TagMi, TagMp>>

pluralTag == <<"#", "|", "#">>

\* the keys of m_pluralGender
SfxP  == <<":", "p">>
SfxN  == <<":", "n">>
SfxG  == <<":", "g">>
SfxNP == <<":", "n", "p">>
SfxGP == <<":", "g", "p">>

(***************************************************************************)
(* The grammar profile provider (package config).  conf holds what the     *)
(* provider answers for the language being validated: a gender list and a  *)
(* plural count, each of which may be unresolvable (gendersFound,          *)
(* pluralFound).                                                           *)
(***************************************************************************)
NotFound == "NotFound"
nil == "nil"

GetPlural(c)  == IF c.pluralFound THEN [n |-> c.plural, err |-> nil]
                 ELSE [n |-> 0, err |-> NotFound]

GetGenders(c) == IF c.gendersFound THEN [l |-> c.genders, err |-> nil]
                 ELSE [l |-> <<>>, err |-> NotFound]

\* the for-range loops building list: each tag followed by a comma
RECURSIVE JoinList(_)
JoinList(l) == IF l = <<>> THEN <<>> ELSE Head(l) \o <<",">> \o JoinList(Tail(l))

(***************************************************************************)
(* checkPlural                                                             *)
(***************************************************************************)
checkPluralMut(k, v, c) ==
    LET gp == GetPlural(c)
        n  == IF gp.n > 0 THEN gp.n - 1 ELSE gp.n
        ct == Count(v, pluralTag)
    IN  [res |-> IF ct # n THEN <<"plural-forms", n + 1, ct + 1>> ELSE <<>>,
         err |-> gp.err]

checkPlural(k, v, c) ==
    LET gp == GetPlural(c)
    IN  IF gp.err # nil THEN [res |-> <<>>, err |-> gp.err]
        ELSE LET n  == IF gp.n > 0 THEN gp.n - 1 ELSE gp.n
                 ct == Count(v, pluralTag)
             IN  [res |-> IF ct # n THEN <<"plural-forms", n + 1, ct + 1>> ELSE <<>>,
                  err |-> nil]


(***************************************************************************)
(* checkGenderSender                                                       *)
(***************************************************************************)
\* the bad-syntax test of the sender loop
SenderBad(ct, ok) == (ct > 1) \/ (ct = 1 /\ ~ok)

\* the loop over genderTags, from its i-th tag on; it stops at the first
\* bad tag (break) and returns the issue and the matches counted so far
RECURSIVE SenderLoop(_, _, _, _)
SenderLoop(i, total, v, list) ==
    IF i > Len(genderTags) THEN [res |-> <<>>, total |-> total]
    ELSE LET gender == genderTags[i]
             ct     == Count(v, gender)
             ok     == Contains(list, gender)
         IN  IF SenderBad(ct, ok)
             THEN [res |-> IF Len(list) > 0
                           THEN <<"gender-only-one-of", gender, list>>
                           ELSE <<"gender-none-expected", gender>>,
                   total |-> total]
             ELSE SenderLoop(i + 1, IF ct > 0 THEN total + 1 ELSE total, v, list)

\* the check after the loop: exactly one match when there are genders
SenderTotalMut(l, list, total, r) ==
    IF Len(l) > 0
    THEN (IF total # 1 THEN <<"gender-expected", list>> ELSE <<>>)
    ELSE r

SenderTotal(l, list, total, r) ==
    IF Len(l) > 0 /\ total # 1 THEN <<"gender-expected", list>> ELSE r

checkGenderSender(k, v, c) ==
    LET gg == GetGenders(c)
    IN  IF gg.err # nil THEN [res |-> <<>>, err |-> gg.err]
        ELSE LET list == JoinList(gg.l)
                 lp   == SenderLoop(1, 0, v, list)
             IN  [res |-> SenderTotal(gg.l, list, lp.total, lp.res), err |-> nil]

(***************************************************************************)
(* checkGenderReceiver                                                     *)
(***************************************************************************)
\* initial value of minIdx (arbitrarily high)
MinIdxInit == 32767

\* the bad-syntax test of the receiver loops, n being the count expected of
\* a tag of the language
ReceiverBad(ct, ok, n) == (ct # n \/ ~ok) /\ (ct # 0 \/ ok)

RECURSIVE ReceiverLoop(_, _, _, _, _)
ReceiverLoop(i, total, minIdx, v, list) ==
    IF i > Len(genderTags) THEN [res |-> <<>>, total |-> total, minIdx |-> minIdx]
    ELSE LET gender == genderTags[i]
             ct     == Count(v, gender)
             ok     == Contains(list, gender)
         IN  IF ReceiverBad(ct, ok, 1)
             THEN [res |-> IF Len(list) > 0
                           THEN <<"gender-one-of-each", gender, list>>
                           ELSE <<"gender-none-expected", gender>>,
                   total |-> total, minIdx |-> minIdx]
             ELSE IF ok /\ ct = 1
                  THEN LET idx == Index(v, gender)
                       IN  ReceiverLoop(i + 1, total + 1,
                                        IF idx < minIdx THEN idx ELSE minIdx, v, list)
                  ELSE ReceiverLoop(i + 1, total, minIdx, v, list)

\* the first gender tag needs to be at index 0
ReceiverFirstMut(l, minIdx, r) ==
    IF Len(l) > 0 /\ minIdx > 0 THEN <<"gender-first-tag-at", minIdx>> ELSE r

ReceiverFirst(l, minIdx, r) ==
    IF Len(l) > 1 /\ minIdx > 0 THEN <<"gender-first-tag-at", minIdx>> ELSE r

checkGenderReceiver(k, v, c) ==
    LET gg == GetGenders(c)
    IN  IF gg.err # nil THEN [res |-> <<>>, err |-> gg.err]
        ELSE LET l    == gg.l
                 list == JoinList(l)
                 lp   == ReceiverLoop(1, 0, MinIdxInit, v, list)
                 r1   == IF lp.total # Len(l) THEN <<"gender-expected", list>> ELSE lp.res
             IN  [res |-> ReceiverFirst(l, lp.minIdx, r1), err |-> nil]

(***************************************************************************)
(* The plural-only exception of the two gender+plural checks (no gender    *)
(* but plurals): forms are separated with the plural tag.                  *)
(***************************************************************************)
PluralOnlyMut(nbPluralExpected, l) == Len(l) = 0

PluralOnly(nbPluralExpected, l) == nbPluralExpected > 0 /\ Len(l) = 0

PluralOnlyCheck(v, nbPluralExpected) ==
    LET n  == nbPluralExpected - 1
        ct == Count(v, pluralTag)
    IN  IF ct # n THEN <<"gender-plural-forms-found", ct + 1, n + 1>> ELSE <<>>

(***************************************************************************)
(* checkGenderSenderPlural                                                 *)
(***************************************************************************)
RECURSIVE SenderPluralLoop(_, _, _, _)
SenderPluralLoop(i, pluralCount, v, list) ==
    IF i > Len(genderTags) THEN [res |-> <<>>, pluralCount |-> pluralCount]
    ELSE LET gender == genderTags[i]
             ct     == Count(v, gender)
         IN  IF ct > 0 /\ ~Contains(list, gender)
             THEN [res |-> <<"gender-plural-unexpected-tag", gender>>,
                   pluralCount |-> pluralCount]
             ELSE SenderPluralLoop(i + 1, pluralCount + ct, v, list)

checkGenderSenderPlural(k, v, c) ==
    LET gg == GetGenders(c)
        gp == GetPlural(c)
    IN  IF gg.err # nil THEN [res |-> <<>>, err |-> gg.err]
        ELSE IF gp.err # nil THEN [res |-> <<>>, err |-> gp.err]
        ELSE IF PluralOnly(gp.n, gg.l)
             THEN [res |-> PluralOnlyCheck(v, gp.n), err |-> nil]
             ELSE LET lp == SenderPluralLoop(1, 0, v, JoinList(gg.l))
                  IN  [res |-> IF lp.pluralCount # gp.n
                               THEN <<"gender-plural-counted", lp.pluralCount, gp.n>>
                               ELSE lp.res,
                       err |-> nil]

(***************************************************************************)
(* checkGenderReceiverPlural                                               *)
(***************************************************************************)
\* arrayIdx: nbPluralExpected+1 rows of len(lgGenderTags)+2 zeroes
NewArrayIdx(nbPluralExpected, nGenders) ==
    [p \in 0..nbPluralExpected |-> [g \in 0..(nGenders + 1) |-> 0]]

\* the inner loop capturing the position of each instance of gender in v,
\* into column g, from plural form p on; str is the rest of v to search
RECURSIVE CapturePositions(_, _, _, _, _, _, _)
CapturePositions(p, str, arrayIdx, g, gender, v, nbPluralExpected) ==
    IF p > nbPluralExpected THEN arrayIdx
    ELSE LET idx == Index(str, gender)
         IN  CapturePositions(p + 1, SliceFrom(str, idx + Len(gender)),
                              [arrayIdx EXCEPT ![p][g] = idx + (Len(v) - Len(str))],
                              g, gender, v, nbPluralExpected)

\* 1st loop: the right tags the right number of times; returns at the first
\* bad tag
RECURSIVE ReceiverPluralCount(_, _, _, _, _, _)
ReceiverPluralCount(i, g, arrayIdx, v, list, nbPluralExpected) ==
    IF i > Len(genderTags) THEN [res |-> <<>>, arrayIdx |-> arrayIdx]
    ELSE LET gender == genderTags[i]
             ct     == Count(v, gender)
             ok     == Contains(list, gender)
         IN  IF ReceiverBad(ct, ok, nbPluralExpected)
             THEN [res |-> IF Len(list) > 0
                           THEN <<"gender-plural-count", ct, gender, nbPluralExpected, list>>
                           ELSE <<"gender-plural-none-expected", gender>>,
                   arrayIdx |-> arrayIdx]
             ELSE IF ok
                  THEN ReceiverPluralCount(i + 1, g + 1,
                           CapturePositions(1, v, arrayIdx, g, gender, v, nbPluralExpected),
                           v, list, nbPluralExpected)
                  ELSE ReceiverPluralCount(i + 1, g, arrayIdx, v, list, nbPluralExpected)

\* keep track of the highest index of plural form p, in the last column
KeepHighestMut(arrayIdx, p, g, last) == arrayIdx

KeepHighest(arrayIdx, p, g, last) ==
    IF arrayIdx[p][g] > arrayIdx[p][last]
    THEN [arrayIdx EXCEPT ![p][last] = arrayIdx[p][g]]
    ELSE arrayIdx

\* 2nd loop: the tags are in the right order; returns at the first tag of
\* plural form p that lies before the highest index of form p-1
RECURSIVE ReceiverPluralOrder(_, _, _, _, _)
ReceiverPluralOrder(p, g, arrayIdx, lgGenderTags, nbPluralExpected) ==
    LET last == Len(lgGenderTags) + 1
    IN  IF p > nbPluralExpected THEN <<>>
        ELSE IF g > Len(lgGenderTags)
             THEN ReceiverPluralOrder(p + 1, 1, arrayIdx, lgGenderTags, nbPluralExpected)
        ELSE IF arrayIdx[p][g] < arrayIdx[p - 1][last]
             THEN <<"gender-plural-incorrect-order", p, lgGenderTags[g]>>
        ELSE ReceiverPluralOrder(p, g + 1, KeepHighest(arrayIdx, p, g, last),
                                 lgGenderTags, nbPluralExpected)

checkGenderReceiverPlural(k, v, c) ==
    LET gg == GetGenders(c)
        gp == GetPlural(c)
    IN  IF gg.err # nil THEN [res |-> <<>>, err |-> gg.err]
        ELSE IF gp.err # nil THEN [res |-> <<>>, err |-> gp.err]
        ELSE IF PluralOnly(gp.n, gg.l)
             THEN [res |-> PluralOnlyCheck(v, gp.n), err |-> nil]
             ELSE LET ct1 == ReceiverPluralCount(1, 1, NewArrayIdx(gp.n, Len(gg.l)),
                                                 v, JoinList(gg.l), gp.n)
                  IN  [res |-> IF ct1.res # <<>> THEN ct1.res
                               ELSE ReceiverPluralOrder(1, 1, ct1.arrayIdx, gg.l, gp.n),
                       err |-> nil]


(***************************************************************************)
(* CheckPlrlGendrTokenVal and FilterPlrGdr: the regular expressions.       *)
(***************************************************************************)
\* the class [png]
IsPNG(ch) == ch \in {"p", "n", "g"}

\* the class [a-zA-Z_\d:]
IsIdChar(ch) ==
    ch \in {"a", "b", "c", "d", "e", "f", "g", "h", "i", "j", "k", "l", "m",
            "n", "o", "p", "q", "r", "s", "t", "u", "v", "w", "x", "y", "z",
            "A", "B", "C", "D", "E", "F", "G", "H", "I", "J", "K", "L", "M",
            "N", "O", "P", "Q", "R", "S", "T", "U", "V", "W", "X", "Y", "Z",
            "0", "1", "2", "3", "4", "5", "6", "7", "8", "9", "_", ":"}

\* \{[a-zA-Z_\d:]+\}$ matched at 0-based offset i of s
BraceGroupToEnd(s, i) ==
    /\ Len(s) - i >= 3
    /\ s[i + 1] = "{"
    /\ s[Len(s)] = "}"
    /\ \A j \in (i + 2)..(Len(s) - 1) : IsIdChar(s[j])

\* (?:\{[a-zA-Z_\d:]+\})?$ matched at offset i
OptBraceGroupToEnd(s, i) == i = Len(s) \/ BraceGroupToEnd(s, i)

\* the length of group 1 of (:[png]{1,2})(?:\{[a-zA-Z_\d:]+\})?$ matched at
\* offset i, the greedy {1,2} trying two characters first; 0 if no match
CaptureLenAt(s, i) ==
    IF ~(i + 2 <= Len(s) /\ s[i + 1] = ":" /\ IsPNG(s[i + 2])) THEN 0
    ELSE IF i + 3 <= Len(s) /\ IsPNG(s[i + 3]) /\ OptBraceGroupToEnd(s, i + 3) THEN 3
    ELSE IF OptBraceGroupToEnd(s, i + 2) THEN 2
    ELSE 0

\* FindStringSubmatch(token)[1]: group 1 of the leftmost match, <<>> if the
\* expression does not match
CapturedTag(s) ==
    LET starts == {i \in 0..Len(s) : CaptureLenAt(s, i) > 0}
    IN  IF starts = {} THEN <<>>
        ELSE LET i == CHOOSE x \in starts : \A y \in starts : x <= y
             IN  SubSeq(s, i + 1, i + CaptureLenAt(s, i))

\* m_pluralGender: the check function of a suffix, "none" if it has none
PluralGenderOf(sufx) ==
    IF sufx = SfxP THEN "checkPlural"
    ELSE IF sufx = SfxN THEN "checkGenderSender"
    ELSE IF sufx = SfxG THEN "checkGenderReceiver"
    ELSE IF sufx = SfxNP THEN "checkGenderSenderPlural"
    ELSE IF sufx = SfxGP THEN "checkGenderReceiverPlural"
    ELSE "none"

\* the call f.(func(string, string, string) (string, error))(token, val, language)
CallCheck(f, k, v, c) ==
    IF f = "checkPlural" THEN checkPlural(k, v, c)
    ELSE IF f = "checkGenderSender" THEN checkGenderSender(k, v, c)
    ELSE IF f = "checkGenderReceiver" THEN checkGenderReceiver(k, v, c)
    ELSE IF f = "checkGenderSenderPlural" THEN checkGenderSenderPlural(k, v, c)
    ELSE checkGenderReceiverPlural(k, v, c)

CheckPlrlGendrTokenVal(tkn, v, c) ==
    LET f == PluralGenderOf(CapturedTag(tkn))
    IN  IF f = "none" THEN [res |-> <<>>, err |-> nil, called |-> "none"]
        ELSE LET r == CallCheck(f, tkn, v, c)
             IN  [res |-> r.res, err |-> r.err, called |-> f]

\* isKeyPlrExtForm: :p\{[a-zA-Z_\d:]+\}$ matches somewhere in tkn
isKeyPlrExtForm(tkn) ==
    \E i \in 0..Len(tkn) :
        /\ i + 2 <= Len(tkn)
        /\ tkn[i + 1] = ":"
        /\ tkn[i + 2] = "p"
        /\ BraceGroupToEnd(tkn, i + 2)

\* whether FilterPlrGdr keeps a token name
KeepsToken(tkn) ==
    \E sufx \in {SfxP, SfxN, SfxG, SfxNP, SfxGP} :
        HasSuffix(tkn, sufx) \/ isKeyPlrExtForm(tkn)

FilterPlrGdr(in) == SelectSeq(in, KeepsToken)

\* no UTF8Enc instance, no reader
NoWriter == [utfEncoder |-> "none"]

NilReader == [kind |-> "nil", from |-> 0, fallback |-> "none"]

(***************************************************************************)
(* Inputs.                                                                 *)
(***************************************************************************)
\* the concatenation of a sequence of strings
RECURSIVE Flatten(_)
Flatten(ps) == IF ps = <<>> THEN <<>> ELSE Head(ps) \o Flatten(Tail(ps))

\* the sequences of at most n elements of S
SeqsUpTo(S, n) == UNION {[1..k -> S] : k \in 0..n}

\* token values: two gender tags, the plural separator, text, and the tail
\* of a tag (which, put after a tag, makes two overlapping instances of it)
ValuePieces == {TagF, TagM, pluralTag, <<"x">>, <<"|", "f", "|", "#">>}

Values == {Flatten(ps) : ps \in SeqsUpTo(ValuePieces, MaxPieces)}

\* gender lists of a language: subsets of the 7 tags, in any order
GenderLists == {<<>>, <<TagF>>, <<TagM>>, <<TagF, TagM>>, <<TagM, TagF>>}

Profiles ==
    {[genders |-> IF gf THEN l ELSE <<>>, gendersFound |-> gf,
      plural |-> IF pf THEN n ELSE 0, pluralFound |-> pf] :
        l \in GenderLists, n \in 0..MaxPlural, gf \in BOOLEAN, pf \in BOOLEAN}

\* token names
TokenPieces == {<<"a">>, <<":">>, <<"p">>, <<"n">>, <<"g">>, <<"{", "a", "}">>}

Tokens == {Flatten(ps) : ps \in SeqsUpTo(TokenPieces, MaxTokPieces)}

\* the name the five checks are called with directly (they do not read it)
AToken == <<"a", ":", "p">>

(***************************************************************************)
(* Spec: the five variant checks, each called on any value and profile.    *)
(***************************************************************************)
Init ==
    /\ conf \in Profiles
    /\ pc = "idle"
    /\ op = "none"
    /\ token = <<>>
    /\ val = <<>>
    /\ res = <<>>
    /\ err = nil
    /\ called = "none"
    /\ file = <<>>
    /\ sinkOk = TRUE
    /\ u = NoWriter
    /\ written = <<>>
    /\ nWritten = 0
    /\ encodingName = <<>>
    /\ explicitName = <<>>
    /\ reader = NilReader
    /\ encodingFound = <<>>
    /\ content = <<>>

Returns(f, k, v, rv) ==
    /\ pc' = "done"
    /\ op' = f
    /\ token' = k
    /\ val' = v
    /\ res' = rv.res
    /\ err' = rv.err
    /\ UNCHANGED <<conf, evars>>

CallCheckPlural ==
    /\ pc = "idle"
    /\ \E v \in Values : Returns("checkPlural", AToken, v, checkPlural(AToken, v, conf))
    /\ called' = "checkPlural"

CallCheckGenderSender ==
    /\ pc = "idle"
    /\ \E v \in Values :
          Returns("checkGenderSender", AToken, v, checkGenderSender(AToken, v, conf))
    /\ called' = "checkGenderSender"

CallCheckGenderReceiver ==
    /\ pc = "idle"
    /\ \E v \in Values :
          Returns("checkGenderReceiver", AToken, v, checkGenderReceiver(AToken, v, conf))
    /\ called' = "checkGenderReceiver"

CallCheckGenderSenderPlural ==
    /\ pc = "idle"
    /\ \E v \in Values :
          Returns("checkGenderSenderPlural", AToken, v,
                  checkGenderSenderPlural(AToken, v, conf))
    /\ called' = "checkGenderSenderPlural"

CallCheckGenderReceiverPlural ==
    /\ pc = "idle"
    /\ \E v \in Values :
          Returns("checkGenderReceiverPlural", AToken, v,
                  checkGenderReceiverPlural(AToken, v, conf))
    /\ called' = "checkGenderReceiverPlural"

Next ==
    \/ CallCheckPlural
    \/ CallCheckGenderSender
    \/ CallCheckGenderReceiver
    \/ CallCheckGenderSenderPlural
    \/ CallCheckGenderReceiverPlural

Spec == Init /\ [][Next]_vars


(***************************************************************************)
(* SpecTok: CheckPlrlGendrTokenVal on any token name, and FilterPlrGdr.    *)
(***************************************************************************)
\* the profiles and the values the dispatched checks are run on
TokProfiles ==
    {[genders |-> <<TagF, TagM>>, gendersFound |-> TRUE, plural |-> 2, pluralFound |-> TRUE],
     [genders |-> <<>>, gendersFound |-> TRUE, plural |-> 2, pluralFound |-> TRUE],
     [genders |-> <<>>, gendersFound |-> FALSE, plural |-> 0, pluralFound |-> FALSE]}

TokValues ==
    {<<>>, TagF \o <<"x">>, TagF \o TagM, <<"x">> \o pluralTag \o <<"x">>}

\* the token names FilterPlrGdr is given along with the one under test
OtherTokens == {<<"a">>, <<"a", ":", "g", "p">>}

InitTok ==
    /\ conf \in TokProfiles
    /\ pc = "idle"
    /\ op = "none"
    /\ token = <<>>
    /\ val = <<>>
    /\ res = <<>>
    /\ err = nil
    /\ called = "none"
    /\ file = <<>>
    /\ sinkOk = TRUE
    /\ u = NoWriter
    /\ written = <<>>
    /\ nWritten = 0
    /\ encodingName = <<>>
    /\ explicitName = <<>>
    /\ reader = NilReader
    /\ encodingFound = <<>>
    /\ content = <<>>

CallCheckPlrlGendrTokenVal ==
    /\ pc = "idle"
    /\ \E tkn \in Tokens, v \in TokValues :
          LET rv == CheckPlrlGendrTokenVal(tkn, v, conf)
          IN  /\ Returns("CheckPlrlGendrTokenVal", tkn, v, rv)
              /\ called' = rv.called

CallFilterPlrGdr ==
    /\ pc = "idle"
    /\ \E tkn \in Tokens, other \in OtherTokens :
          /\ pc' = "done"
          /\ op' = "FilterPlrGdr"
          /\ token' = <<other, tkn>>
          /\ res' = FilterPlrGdr(<<other, tkn>>)
    /\ UNCHANGED <<conf, val, err, called, evars>>

NextTok ==
    \/ CallCheckPlrlGendrTokenVal
    \/ CallFilterPlrGdr

SpecTok == InitTok /\ [][NextTok]_vars

(***************************************************************************)
(* utils.go: bytes, runes and the encodings of golang.org/x/text.          *)
(***************************************************************************)
\* byte order mark bytes
Utf8bom    == <<239, 187, 191>>
Utf16LEbom == <<255, 254>>
Utf16BEbom == <<254, 255>>
Utf32LEbom == <<255, 254, 0, 0>>
Utf32BEbom == <<0, 0, 254, 255>>

\* probe length: 4 * 32 * 1024
utf8ProbeLen == 131072
\* utf8.UTFMax
UTFMax == 4
\* utf8.RuneError, U+FFFD
RuneError == 65533

\* encoding names; "" is <<>>
NameUTF8    == <<"U", "T", "F", "8">>
NameUTF8BOM == <<"U", "T", "F", "8", "B", "O", "M">>
NameUTF16LE == <<"U", "T", "F", "1", "6", "L", "E">>
NameUTF16BE == <<"U", "T", "F", "1", "6", "B", "E">>
NameUTF32LE == <<"U", "T", "F", "3", "2", "L", "E">>
NameUTF32BE == <<"U", "T", "F", "3", "2", "B", "E">>

Upper == <<"A", "B", "C", "D", "E", "F", "G", "H", "I", "J", "K", "L", "M",
           "N", "O", "P", "Q", "R", "S", "T", "U", "V", "W", "X", "Y", "Z">>
Lower == <<"a", "b", "c", "d", "e", "f", "g", "h", "i", "j", "k", "l", "m",
           "n", "o", "p", "q", "r", "s", "t", "u", "v", "w", "x", "y", "z">>

\* strings.ToLower
ToLower(s) ==
    [i \in 1..Len(s) |->
        IF \E j \in 1..Len(Upper) : Upper[j] = s[i]
        THEN Lower[CHOOSE j \in 1..Len(Upper) : Upper[j] = s[i]]
        ELSE s[i]]

MinOf(a, b) == IF a < b THEN a ELSE b

\* a continuation byte 10xxxxxx
IsCont(b) == b >= 128 /\ b <= 191

\* utf8.DecodeRune: the first rune of bs and its width; (RuneError, 0) for
\* no byte, (RuneError, 1) for an invalid or incomplete encoding
DecodeRune(bs) ==
    IF Len(bs) = 0 THEN [r |-> RuneError, n |-> 0]
    ELSE
      LET b0  == bs[1]
          bad == [r |-> RuneError, n |-> 1]
      IN  IF b0 < 128 THEN [r |-> b0, n |-> 1]
          ELSE IF b0 >= 194 /\ b0 <= 223
               THEN IF Len(bs) >= 2 /\ IsCont(bs[2])
                    THEN [r |-> (b0 - 192) * 64 + (bs[2] - 128), n |-> 2]
                    ELSE bad
          ELSE IF b0 >= 224 /\ b0 <= 239
               THEN LET lo == IF b0 = 224 THEN 160 ELSE 128
                        hi == IF b0 = 237 THEN 159 ELSE 191
                    IN  IF Len(bs) >= 3 /\ bs[2] >= lo /\ bs[2] <= hi /\ IsCont(bs[3])
                        THEN [r |-> (b0 - 224) * 4096 + (bs[2] - 128) * 64 + (bs[3] - 128),
                              n |-> 3]
                        ELSE bad
          ELSE IF b0 >= 240 /\ b0 <= 244
               THEN LET lo == IF b0 = 240 THEN 144 ELSE 128
                        hi == IF b0 = 244 THEN 143 ELSE 191
                    IN  IF /\ Len(bs) >= 4 /\ bs[2] >= lo /\ bs[2] <= hi
                           /\ IsCont(bs[3]) /\ IsCont(bs[4])
                        THEN [r |-> (b0 - 240) * 262144 + (bs[2] - 128) * 4096
                                     + (bs[3] - 128) * 64 + (bs[4] - 128),
                              n |-> 4]
                        ELSE bad
          ELSE bad

\* a surrogate code point
IsSurrogate(x) == x >= 55296 /\ x <= 57343

\* utf8.EncodeRune: the UTF-8 bytes of rune x (U+FFFD for an invalid rune)
EncodeRune(x) ==
    LET y == IF x < 0 \/ x > 1114111 \/ IsSurrogate(x) THEN RuneError ELSE x
    IN  IF y < 128 THEN <<y>>
        ELSE IF y < 2048 THEN <<192 + (y \div 64), 128 + (y % 64)>>
        ELSE IF y < 65536
             THEN <<224 + (y \div 4096), 128 + ((y \div 64) % 64), 128 + (y % 64)>>
        ELSE <<240 + (y \div 262144), 128 + ((y \div 4096) % 64),
               128 + ((y \div 64) % 64), 128 + (y % 64)>>

\* the two bytes of a 16-bit unit, in the byte order endian ("le" or "be")
Unit16(x, endian) ==
    IF endian = "le" THEN <<x % 256, x \div 256>> ELSE <<x \div 256, x % 256>>

\* the encoder of unicode.UTF16(endian, IgnoreBOM): Encoder.Bytes(buf); a
\* byte that starts no valid UTF-8 encoding is encoded as U+FFFD
RECURSIVE UTF16Encode(_, _)
UTF16Encode(buf, endian) ==
    IF buf = <<>> THEN <<>>
    ELSE LET d == DecodeRune(buf)
             x == d.r
         IN  (IF x <= 65535 THEN Unit16(x, endian)
              ELSE Unit16(55296 + ((x - 65536) \div 1024), endian)
                   \o Unit16(56320 + ((x - 65536) % 1024), endian))
             \o UTF16Encode(SliceFrom(buf, d.n), endian)

\* the 16-bit unit at 0-based offset i of src
UnitAt(src, i, endian) ==
    IF endian = "le" THEN src[i + 1] + 256 * src[i + 2]
    ELSE 256 * src[i + 1] + src[i + 2]

\* utf16.DecodeRune of a surrogate pair, U+FFFD if it is not one
DecodePair(hi, lo) ==
    IF hi >= 55296 /\ hi <= 56319 /\ lo >= 56320 /\ lo <= 57343
    THEN 65536 + (hi - 55296) * 1024 + (lo - 56320)
    ELSE RuneError

\* the decoder of unicode.UTF16(endian, IgnoreBOM), run to the end of src
RECURSIVE UTF16Decode(_, _)
UTF16Decode(src, endian) ==
    IF Len(src) = 0 THEN <<>>
    ELSE IF Len(src) = 1 THEN EncodeRune(RuneError)
    ELSE LET x == UnitAt(src, 0, endian)
         IN  IF IsSurrogate(x)
             THEN IF Len(src) >= 4
                  THEN EncodeRune(DecodePair(x, UnitAt(src, 2, endian)))
                       \o UTF16Decode(SliceFrom(src, 4), endian)
                  ELSE EncodeRune(RuneError) \o UTF16Decode(SliceFrom(src, 2), endian)
             ELSE EncodeRune(x) \o UTF16Decode(SliceFrom(src, 2), endian)

\* the 32-bit unit at the start of src; -1 (no rune) stands for every unit
\* of 2^24 and above
Unit32(src, endian) ==
    LET b == IF endian = "le" THEN <<src[4], src[3], src[2], src[1]>>
             ELSE <<src[1], src[2], src[3], src[4]>>
    IN  IF b[1] # 0 THEN -1 ELSE 65536 * b[2] + 256 * b[3] + b[4]

RECURSIVE UTF32DecodeUnits(_, _)
UTF32DecodeUnits(src, endian) ==
    IF Len(src) = 0 THEN <<>>
    ELSE IF Len(src) < 4 THEN EncodeRune(RuneError)
    ELSE EncodeRune(Unit32(src, endian)) \o UTF32DecodeUnits(SliceFrom(src, 4), endian)

HasPrefix(s, prefix) == Len(s) >= Len(prefix) /\ SubSeq(s, 1, Len(prefix)) = prefix

\* the decoder of utf32.UTF32(endian, UseBOM), run to the end of src: a BOM
\* at the start overrides the byte order and is dropped
UTF32Decode(src, endian) ==
    IF HasPrefix(src, Utf32LEbom) THEN UTF32DecodeUnits(SliceFrom(src, 4), "le")
    ELSE IF HasPrefix(src, Utf32BEbom) THEN UTF32DecodeUnits(SliceFrom(src, 4), "be")
    ELSE UTF32DecodeUnits(src, endian)

\* the decoder of unicode.UTF8: invalid bytes become U+FFFD
RECURSIVE UTF8Decode(_)
UTF8Decode(src) ==
    IF src = <<>> THEN <<>>
    ELSE LET d == DecodeRune(src)
         IN  EncodeRune(d.r) \o UTF8Decode(SliceFrom(src, d.n))

\* a decoder run to the end of src; "nop" is encoding.Nop
RunDecoder(dec, src) ==
    IF dec = "utf8" THEN UTF8Decode(src) ELSE src

\* unicode.BOMOverride(fallback), run to the end of src: a UTF-16 or UTF-8
\* BOM at the start selects the decoder and is dropped
BOMOverride(fallback, src) ==
    IF HasPrefix(src, Utf16LEbom) THEN UTF16Decode(SliceFrom(src, 2), "le")
    ELSE IF HasPrefix(src, Utf16BEbom) THEN UTF16Decode(SliceFrom(src, 2), "be")
    ELSE IF HasPrefix(src, Utf8bom) THEN SliceFrom(src, 3)
    ELSE RunDecoder(fallback, src)

\* htmlindex.Get: the decoder of an encoding name, "none" (an error) for a
\* name the index does not hold
htmlindexGet(encName) ==
    LET n == ToLower(encName)
    IN  IF n \in {<<"u", "t", "f", "8">>, <<"u", "t", "f", "-", "8">>} THEN "utf8"
        ELSE "none"

(***************************************************************************)
(* UTFReader                                                               *)
(***************************************************************************)
\* readers: f itself positioned at offset from, or a transform.Reader on f
\* (from its start) with a decoder
FileReader(from) == [kind |-> "file", from |-> from, fallback |-> "none"]

TransformReader(kind, fallback) == [kind |-> kind, from |-> 0, fallback |-> fallback]

\* nBom >= len(b) and the leading bytes read equal b
BomIs(bom, nBom, b) == nBom >= Len(b) /\ \A i \in 1..Len(b) : bom[i] = b[i]

\* the loop checking that all runes of the probe are UTF-8: the final nPos;
\* buf is the probe buffer, zero beyond the nProbe bytes read
RECURSIVE ProbeRunes(_, _, _)
ProbeRunes(nPos, buf, nProbe) ==
    IF nPos >= nProbe THEN nPos
    ELSE LET d == DecodeRune(buf)
         IN  IF d.n <= 0 \/ d.r = RuneError THEN nPos
             ELSE ProbeRunes(nPos + d.n, SliceFrom(buf, d.n), nProbe)

\* get encoding by name
ByNameMut(encName) ==
    LET dec == htmlindexGet(encName)
    IN  IF dec = "none"
        THEN [r |-> NilReader, encodingFound |-> ToLower(encName), err |-> "invalid encoding"]
        ELSE [r |-> TransformReader("bomoverride", dec), encodingFound |-> ToLower(encName),
              err |-> nil]

ByName(encName) ==
    LET dec == htmlindexGet(encName)
    IN  IF dec = "none"
        THEN [r |-> NilReader, encodingFound |-> encName, err |-> "invalid encoding"]
        ELSE [r |-> TransformReader("bomoverride", dec), encodingFound |-> encName,
              err |-> nil]

\* the label returned for a file found empty by the probe read
EmptyProbeLabel == NameUTF32LE

\* no BOM detected; the I/O calls left are the probe read (3) and the seek
\* back (4)
NoBom(f, encName, failAt) ==
    IF encName = <<>>
    THEN LET nProbe == MinOf(Len(f), utf8ProbeLen)
             buf    == SubSeq(f, 1, nProbe)
                       \o [i \in 1..MinOf(utf8ProbeLen - nProbe, UTFMax) |-> 0]
             nPos   == ProbeRunes(0, buf, nProbe)
         IN  IF failAt = 3
             THEN [r |-> NilReader, encodingFound |-> <<>>, err |-> "file read error"]
             ELSE IF nProbe = 0
             THEN [r |-> FileReader(0), encodingFound |-> EmptyProbeLabel, err |-> nil]
             ELSE IF failAt = 4
             THEN [r |-> NilReader, encodingFound |-> <<>>, err |-> "file seek error"]
             ELSE IF nPos >= nProbe \/ nPos >= utf8ProbeLen - UTFMax
             THEN [r |-> FileReader(0), encodingFound |-> NameUTF8, err |-> nil]
             ELSE ByName(NameUTF8)
    ELSE ByName(encName)

\* the BOM tests after the UTF-8 one, in the order of the code
DetectBomMut(bom, nBom) ==
    IF BomIs(bom, nBom, Utf16LEbom)
    THEN [r |-> TransformReader("bomoverride", "nop"), encodingFound |-> NameUTF16LE]
    ELSE IF BomIs(bom, nBom, Utf16BEbom)
    THEN [r |-> TransformReader("bomoverride", "nop"), encodingFound |-> NameUTF16BE]
    ELSE IF BomIs(bom, nBom, Utf32LEbom)
    THEN [r |-> TransformReader("utf32le", "none"), encodingFound |-> NameUTF32LE]
    ELSE IF BomIs(bom, nBom, Utf32BEbom)
    THEN [r |-> TransformReader("utf32be", "none"), encodingFound |-> NameUTF32BE]
    ELSE [r |-> NilReader, encodingFound |-> <<>>]

DetectBom(bom, nBom) ==
    IF BomIs(bom, nBom, Utf32LEbom)
    THEN [r |-> TransformReader("utf32le", "none"), encodingFound |-> NameUTF32LE]
    ELSE IF BomIs(bom, nBom, Utf32BEbom)
    THEN [r |-> TransformReader("utf32be", "none"), encodingFound |-> NameUTF32BE]
    ELSE IF BomIs(bom, nBom, Utf16LEbom)
    THEN [r |-> TransformReader("bomoverride", "nop"), encodingFound |-> NameUTF16LE]
    ELSE IF BomIs(bom, nBom, Utf16BEbom)
    THEN [r |-> TransformReader("bomoverride", "nop"), encodingFound |-> NameUTF16BE]
    ELSE [r |-> NilReader, encodingFound |-> <<>>]

\* UTFReader(f, encodingName) on a file holding the bytes f; failAt numbers
\* the I/O call that fails: 0 none, 1 the first read, 2 the first seek,
\* 3 the probe read, 4 the seek back after the probe
UTFReader(f, encName, failAt) ==
    LET nBom == MinOf(Len(f), UTFMax)
        bom  == [i \in 1..UTFMax |-> IF i <= nBom THEN f[i] ELSE 0]
    IN  IF failAt = 1
        THEN [r |-> NilReader, encodingFound |-> <<>>, err |-> "file read error"]
        ELSE IF nBom = 0
        THEN [r |-> FileReader(0), encodingFound |-> <<>>, err |-> nil]
        ELSE IF BomIs(bom, nBom, Utf8bom)
        THEN IF failAt = 2
             THEN [r |-> NilReader, encodingFound |-> <<>>, err |-> "file seek error"]
             ELSE [r |-> FileReader(Len(Utf8bom)), encodingFound |-> NameUTF8BOM,
                   err |-> nil]
        ELSE IF failAt = 2
        THEN [r |-> NilReader, encodingFound |-> <<>>, err |-> "file seek error"]
        ELSE LET d == DetectBom(bom, nBom)
             IN  IF d.r # NilReader
                 THEN [r |-> d.r, encodingFound |-> d.encodingFound, err |-> nil]
                 ELSE NoBom(f, encName, failAt)

\* everything read from reader rd, on a file holding the bytes f
ReadToEnd(rd, f) ==
    IF rd.kind = "file" THEN SliceFrom(f, rd.from)
    ELSE IF rd.kind = "utf32le" THEN UTF32Decode(f, "le")
    ELSE IF rd.kind = "utf32be" THEN UTF32Decode(f, "be")
    ELSE IF rd.kind = "bomoverride" THEN BOMOverride(rd.fallback, f)
    ELSE <<>>

(***************************************************************************)
(* NewUTFConvWriter, UTF8Enc.Write, UTF8Enc.Close                          *)
(***************************************************************************)
\* the BOM NewUTFConvWriter prints out
WriterBomMut(encName) ==
    LET n == ToLower(encName)
    IN  IF n = ToLower(NameUTF8BOM) THEN Utf8bom
        ELSE IF n = ToLower(NameUTF16LE) THEN Utf16BEbom
        ELSE IF n = ToLower(NameUTF16BE) THEN Utf16LEbom
        ELSE <<>>

WriterBom(encName) ==
    LET n == ToLower(encName)
    IN  IF n = ToLower(NameUTF8BOM) THEN Utf8bom
        ELSE IF n = ToLower(NameUTF16LE) THEN Utf16LEbom
        ELSE IF n = ToLower(NameUTF16BE) THEN Utf16BEbom
        ELSE <<>>

\* the encoder NewUTFConvWriter sets: its byte order, "none" for none
WriterEncoder(encName) ==
    LET n == ToLower(encName)
    IN  IF n = ToLower(NameUTF16LE) THEN "le"
        ELSE IF n = ToLower(NameUTF16BE) THEN "be"
        ELSE "none"

\* the bytes Write hands to f.Write for buf
WriteOutMut(w, buf) ==
    IF w.utfEncoder = "le" THEN Utf16LEbom \o UTF16Encode(buf, "le")
    ELSE IF w.utfEncoder = "be" THEN Utf16BEbom \o UTF16Encode(buf, "be")
    ELSE buf

WriteOut(w, buf) ==
    IF w.utfEncoder # "none" THEN UTF16Encode(buf, w.utfEncoder) ELSE buf

(***************************************************************************)
(* SpecEnc: UTFReader on any file; NewUTFConvWriter on a new empty file,   *)
(* Write calls, Close, and then UTFReader on the file written.  The file   *)
(* accepts the writes until it breaks (SinkBreaks), and is taken to accept *)
(* the write of NewUTFConvWriter, whose error the code does not look at.    *)
(***************************************************************************)
\* files: BOMs, a pair of zero bytes, "A", "e acute", U+FFFD, a byte that is
\* no UTF-8
FilePieces ==
    {Utf8bom, Utf16LEbom, Utf16BEbom, <<0, 0>>, <<65>>, <<195, 169>>,
     <<239, 191, 189>>, <<255>>}

Files == {Flatten(ps) : ps \in SeqsUpTo(FilePieces, MaxFilePieces)}

\* explicit encoding names: none, names of the index, labels, an unknown one
ExplicitNames ==
    {<<>>, NameUTF8, <<"u", "t", "f", "-", "8">>, NameUTF16LE, NameUTF32LE, <<"x">>}

WriterNames ==
    {NameUTF8, NameUTF8BOM, NameUTF16LE, NameUTF16BE, NameUTF32LE, NameUTF32BE,
     <<"u", "t", "f", "1", "6", "l", "e">>}

\* buffers written: the UTF-8 of "", "A", U+0000, U+00E9, U+20AC, U+1F600,
\* and the two halves of the UTF-8 of U+00E9
Buffers ==
    {<<>>, <<65>>, <<0>>, <<195, 169>>, <<226, 130, 172>>, <<240, 159, 152, 128>>,
     <<195>>, <<169>>}

\* the I/O call of UTFReader that fails, 0 for none
FailAts == 0..4

InitEnc ==
    /\ conf = [genders |-> <<>>, gendersFound |-> FALSE, plural |-> 0, pluralFound |-> FALSE]
    /\ pc = "file"
    /\ op = "none"
    /\ token = <<>>
    /\ val = <<>>
    /\ res = <<>>
    /\ err = nil
    /\ called = "none"
    /\ file \in Files
    /\ sinkOk = TRUE
    /\ u = NoWriter
    /\ written = <<>>
    /\ nWritten = 0
    /\ encodingName = <<>>
    /\ explicitName = <<>>
    /\ reader = NilReader
    /\ encodingFound = <<>>
    /\ content = <<>>

CallNewUTFConvWriter ==
    /\ pc = "file"
    /\ file = <<>>
    /\ \E encName \in WriterNames :
          /\ encodingName' = encName
          /\ file' = file \o WriterBom(encName)
          /\ u' = [utfEncoder |-> WriterEncoder(encName)]
    /\ pc' = "writing"
    /\ op' = "NewUTFConvWriter"
    /\ err' = nil
    /\ UNCHANGED <<gvars, sinkOk, written, nWritten, explicitName, reader,
                   encodingFound, content>>

CallWrite ==
    /\ pc = "writing"
    /\ Len(written) < MaxWrites
    /\ \E buf \in Buffers :
          LET out == WriteOut(u, buf)
          IN  IF sinkOk
              THEN /\ file' = file \o out
                   /\ written' = Append(written, buf)
                   /\ nWritten' = Len(out)
                   /\ err' = nil
              ELSE /\ nWritten' = 0
                   /\ err' = "Unable to write"
                   /\ UNCHANGED <<file, written>>
    /\ op' = "Write"
    /\ UNCHANGED <<gvars, pc, sinkOk, u, encodingName, explicitName, reader,
                   encodingFound, content>>

CallClose ==
    /\ pc = "writing"
    /\ pc' = "closed"
    /\ op' = "Close"
    /\ err' = nil
    /\ UNCHANGED <<gvars, evars>>

SinkBreaks ==
    /\ pc = "writing"
    /\ sinkOk
    /\ sinkOk' = FALSE
    /\ UNCHANGED <<gvars, pc, op, err, file, u, written, nWritten, encodingName,
                   explicitName, reader, encodingFound, content>>

CallUTFReader ==
    /\ pc \in {"file", "closed"}
    /\ \E encName \in ExplicitNames, failAt \in FailAts :
          LET rv == UTFReader(file, encName, failAt)
          IN  /\ explicitName' = encName
              /\ reader' = rv.r
              /\ encodingFound' = rv.encodingFound
              /\ err' = rv.err
              /\ pc' = IF rv.err = nil THEN "reading" ELSE "done"
    /\ op' = "UTFReader"
    /\ UNCHANGED <<gvars, file, sinkOk, u, written, nWritten, encodingName, content>>

CallReadToEnd ==
    /\ pc = "reading"
    /\ content' = ReadToEnd(reader, file)
    /\ pc' = "done"
    /\ UNCHANGED <<gvars, op, err, file, sinkOk, u, written, nWritten, encodingName,
                   explicitName, reader, encodingFound>>

NextEnc ==
    \/ CallNewUTFConvWriter
    \/ CallWrite
    \/ CallClose
    \/ SinkBreaks
    \/ CallUTFReader
    \/ CallReadToEnd

SpecEnc == InitEnc /\ [][NextEnc]_vars

(***************************************************************************)
(* What the claims speak of: the instances of a tag in a value, found by   *)
(* one scan from left to right, an instance starting no earlier than the   *)
(* end of the previous instance of the same tag.                           *)
(***************************************************************************)
RECURSIVE OccFrom(_, _, _)
OccFrom(v, tag, from) ==
    IF from + Len(tag) > Len(v) THEN {}
    ELSE IF MatchAt(v, tag, from)
         THEN {from} \cup OccFrom(v, tag, from + Len(tag))
         ELSE OccFrom(v, tag, from + 1)

\* the offsets at which tag occurs in v
Occurrences(v, tag) == OccFrom(v, tag, 0)

NbOcc(v, tag) == Cardinality(Occurrences(v, tag))

\* the occurrences <<offset, tag>> in v of the tags of the set T
TagOccs(v, T) == UNION {{<<pos, t>> : pos \in Occurrences(v, t)} : t \in T}

AllGenderTags == {genderTags[i] : i \in 1..Len(genderTags)}

TagSet(l) == {l[i] : i \in 1..Len(l)}

Done(f) == pc = "done" /\ op = f /\ err = nil

NoIssue == res = <<>>

\* the group, counted from 1, of occurrence e when the occurrences S are
\* taken in position order and cut into consecutive groups of k
GroupOf(e, S, k) == ((Cardinality({x \in S : x[1] <= e[1]}) - 1) \div k) + 1

\* S splits into n consecutive groups holding every tag of G exactly once
Groupable(v, G, n) ==
    LET S == TagOccs(v, G)
    IN  \A j \in 1..n : \A t \in G :
            Cardinality({e \in S : e[2] = t /\ GroupOf(e, S, Cardinality(G)) = j}) = 1

\* C1: checkGenderReceiverPlural, for a profile with a non-empty gender set
\* G and plural count N, returns no issue if and only if every tag of G
\* occurs exactly N times, no gender tag outside G occurs, and the tag
\* occurrences in position order split into N consecutive groups each
\* holding every tag of G exactly once.
C1_ReceiverPluralIff ==
    (Done("checkGenderReceiverPlural") /\ conf.genders # <<>>) =>
        LET G == TagSet(conf.genders)
        IN  NoIssue <=>
              /\ \A t \in G : NbOcc(val, t) = conf.plural
              /\ \A t \in AllGenderTags \ G : NbOcc(val, t) = 0
              /\ Groupable(val, G, conf.plural)

\* a value of two groups of two tags is accepted
C1_Witness ==
    /\ Done("checkGenderReceiverPlural")
    /\ Len(conf.genders) = 2
    /\ conf.plural = 2
    /\ NoIssue
    /\ Cardinality(TagOccs(val, AllGenderTags)) = 4

Max0(n) == IF n > 0 THEN n ELSE 0

\* whether the Plural rule finds an issue: the number of plural separators
\* differs from max(N-1, 0)
PluralRuleIssue(v, n) == NbOcc(v, pluralTag) # Max0(n - 1)

GenderPluralDone ==
    /\ pc = "done"
    /\ op \in {"checkGenderSenderPlural", "checkGenderReceiverPlural"}
    /\ err = nil
    /\ conf.genders = <<>>

\* C2 (as stated): when G is empty, checkGenderSenderPlural and
\* checkGenderReceiverPlural report an issue exactly when checkPlural would,
\* i.e. exactly when the number of plural separators differs from
\* max(N-1, 0), for every N >= 0 including N = 0.
C2_Original ==
    GenderPluralDone =>
        /\ (~NoIssue) <=> (checkPlural(token, val, conf).res # <<>>)
        /\ (~NoIssue) <=> PluralRuleIssue(val, conf.plural)

\* C2 (amended): when G is empty and N >= 1 the two checks report an issue
\* exactly when checkPlural would, i.e. exactly when the number of plural
\* separators differs from N-1; when G is empty and N = 0 they report an
\* issue exactly when the value holds a gender tag.
C2_DegradesWhenPlurals ==
    GenderPluralDone =>
        IF conf.plural >= 1
        THEN /\ (~NoIssue) <=> (checkPlural(token, val, conf).res # <<>>)
             /\ (~NoIssue) <=> PluralRuleIssue(val, conf.plural)
        ELSE (~NoIssue) <=> (TagOccs(val, AllGenderTags) # {})

\* a value of two plural forms passes the fallback of a language of 2 forms
C2_Witness ==
    /\ GenderPluralDone
    /\ op = "checkGenderSenderPlural"
    /\ conf.plural = 2
    /\ NbOcc(val, pluralTag) = 1
    /\ NoIssue

\* every tag of G occurs exactly once and no other gender tag occurs
OneOfEach(v, G) ==
    /\ \A t \in G : NbOcc(v, t) = 1
    /\ \A t \in AllGenderTags \ G : NbOcc(v, t) = 0

\* the earliest gender tag of v starts at position 0
FirstTagAtStart(v) == \E e \in TagOccs(v, AllGenderTags) : e[1] = 0

\* C3 (as stated): checkGenderReceiver, for a non-empty G of any size,
\* returns no issue if and only if every tag of G occurs exactly once, no
\* gender tag outside G occurs and the earliest gender tag starts at
\* position 0; for an empty G, if and only if the value holds no gender tag.
C3_Original ==
    Done("checkGenderReceiver") =>
        LET G == TagSet(conf.genders)
        IN  IF G # {}
            THEN NoIssue <=> (OneOfEach(val, G) /\ FirstTagAtStart(val))
            ELSE NoIssue <=> (TagOccs(val, AllGenderTags) = {})

\* C3 (amended): as stated, except that the earliest gender tag has to start
\* at position 0 only when G has more than one tag; for |G| = 1 no issue is
\* returned if and only if the tag of G occurs exactly once and no other
\* gender tag occurs, wherever the tag is.
C3_ReceiverIff ==
    Done("checkGenderReceiver") =>
        LET G == TagSet(conf.genders)
        IN  IF G # {}
            THEN NoIssue <=>
                   /\ OneOfEach(val, G)
                   /\ (Cardinality(G) > 1 => FirstTagAtStart(val))
            ELSE NoIssue <=> (TagOccs(val, AllGenderTags) = {})

\* one of each of two tags, the first one not at the start: an issue
C3_Witness ==
    /\ Done("checkGenderReceiver")
    /\ Len(conf.genders) = 2
    /\ OneOfEach(val, TagSet(conf.genders))
    /\ ~FirstTagAtStart(val)
    /\ ~NoIssue

\* C4: checkGenderSender returns no issue if and only if, when G is
\* non-empty, exactly one gender-tag occurrence exists in the whole value
\* and its tag belongs to G and, when G is empty, the value holds no gender
\* tag; an issue found in the tag loop is never cleared by the later check.
C4_SenderIff ==
    Done("checkGenderSender") =>
        LET G   == TagSet(conf.genders)
            all == TagOccs(val, AllGenderTags)
        IN  IF G # {}
            THEN NoIssue <=> (Cardinality(all) = 1 /\ \A e \in all : e[2] \in G)
            ELSE NoIssue <=> (all = {})

\* the loop found a bad tag after counting exactly one good match, and the
\* issue stands
C4_Witness ==
    /\ Done("checkGenderSender")
    /\ conf.genders # <<>>
    /\ LET lp == SenderLoop(1, 0, val, JoinList(conf.genders))
       IN  lp.res # <<>> /\ lp.total = 1
    /\ ~NoIssue

\* C6: each of the five checks, when GetPlural or GetGenders (whichever it
\* calls) returns an error, returns that error with an empty issue string,
\* whatever the value; an issue and an error are never returned together.
C6_ErrorAlone ==
    pc = "done" =>
        /\ (op \in {"checkPlural", "checkGenderSenderPlural", "checkGenderReceiverPlural"}
              /\ ~conf.pluralFound) => (err = NotFound /\ res = <<>>)
        /\ (op \in {"checkGenderSender", "checkGenderReceiver",
                    "checkGenderSenderPlural", "checkGenderReceiverPlural"}
              /\ ~conf.gendersFound) => (err = NotFound /\ res = <<>>)
        /\ ~(err # nil /\ res # <<>>)

\* the plural count is unresolvable and the value holds three plural forms
C6_Witness ==
    /\ pc = "done"
    /\ op = "checkPlural"
    /\ ~conf.pluralFound
    /\ NbOcc(val, pluralTag) = 2
    /\ err = NotFound


\* the check of the longest of the five suffixes the name ends in, a name
\* ending in :p{identifier} counting as ending in :p; "none" for any other
ClaimedCheck(tkn) ==
    IF HasSuffix(tkn, SfxNP) THEN "checkGenderSenderPlural"
    ELSE IF HasSuffix(tkn, SfxGP) THEN "checkGenderReceiverPlural"
    ELSE IF HasSuffix(tkn, SfxP) \/ isKeyPlrExtForm(tkn) THEN "checkPlural"
    ELSE IF HasSuffix(tkn, SfxN) THEN "checkGenderSender"
    ELSE IF HasSuffix(tkn, SfxG) THEN "checkGenderReceiver"
    ELSE "none"

\* C5: CheckPlrlGendrTokenVal runs a variant check if and only if the name
\* ends in :p, :n, :g, :np or :gp, or in ':p{identifier}' (the extension
\* being accepted after ':p' only); the check run is that of the longest
\* matching suffix; for any other name it returns no issue and no error.
C5_Dispatch ==
    (pc = "done" /\ op = "CheckPlrlGendrTokenVal") =>
        /\ called = ClaimedCheck(token)
        /\ ClaimedCheck(token) = "none" => (res = <<>> /\ err = nil)


(***************************************************************************)
(* Claims on UTFReader and the UTF8Enc writer (SpecEnc).                   *)
(***************************************************************************)
BomLabels == {NameUTF8BOM, NameUTF16LE, NameUTF16BE, NameUTF32LE, NameUTF32BE}

Labels == BomLabels \cup {NameUTF8}

\* UTFReader has returned, and not on a failed read or seek
ReaderReturned ==
    /\ op = "UTFReader"
    /\ pc \in {"reading", "done"}
    /\ err \notin {"file read error", "file seek error"}

\* the label of the first BOM, in the order of the claim, that the stream
\* starts with; <<>> if it starts with none
FirstBomLabel(f) ==
    IF HasPrefix(f, <<239, 187, 191>>) THEN NameUTF8BOM
    ELSE IF HasPrefix(f, <<255, 254, 0, 0>>) THEN NameUTF32LE
    ELSE IF HasPrefix(f, <<0, 0, 254, 255>>) THEN NameUTF32BE
    ELSE IF HasPrefix(f, <<255, 254>>) THEN NameUTF16LE
    ELSE IF HasPrefix(f, <<254, 255>>) THEN NameUTF16BE
    ELSE <<>>

\* C7 (as stated): on a non-empty stream, for any explicitEncodingName, the
\* label is that of the first BOM matching the leading bytes, in the order
\* EF BB BF, FF FE 00 00, 00 00 FE FF, FF FE, FE FF; none of the five BOM
\* labels is returned for a stream starting with none of the five BOMs.
C7_Original ==
    (ReaderReturned /\ file # <<>>) =>
        IF FirstBomLabel(file) # <<>>
        THEN encodingFound = FirstBomLabel(file)
        ELSE encodingFound \notin BomLabels

\* C7 (amended): as stated, except that for a stream starting with none of
\* the five BOMs one of the five labels is returned when, and only when,
\* the caller passed that label as explicitEncodingName: the name is
\* returned as given.
C7_BomDecidesLabel ==
    (ReaderReturned /\ file # <<>>) =>
        IF FirstBomLabel(file) # <<>>
        THEN encodingFound = FirstBomLabel(file)
        ELSE encodingFound \in BomLabels => encodingFound = explicitName

\* a stream starting FF FE 00 00 is labelled UTF32LE
C7_Witness ==
    /\ ReaderReturned
    /\ HasPrefix(file, <<255, 254, 0, 0>>)
    /\ explicitName # <<>>
    /\ encodingFound = NameUTF32LE

\* C8 (as stated): for every stream, a zero-length one included, and every
\* explicitEncodingName, a call that returns without error returns one of
\* the six labels.
C8_Original ==
    (ReaderReturned /\ err = nil) => encodingFound \in Labels

\* C8 (amended): a call that returns without error returns the empty label
\* for a zero-length stream and, for any other stream, one of the six
\* labels or the (non-empty) explicitEncodingName as given.
C8_LabelReturned ==
    (ReaderReturned /\ err = nil) =>
        IF file = <<>> THEN encodingFound = <<>>
        ELSE \/ encodingFound \in Labels
             \/ explicitName # <<>> /\ encodingFound = explicitName

\* a stream that is no UTF-8 and has no BOM, read with no explicit name
C8_Witness ==
    /\ ReaderReturned
    /\ err = nil
    /\ explicitName = <<>>
    /\ FirstBomLabel(file) = <<>>
    /\ HasPrefix(file, <<255>>)
    /\ encodingFound = NameUTF8

\* canonical text: valid UTF-8
RECURSIVE IsText(_)
IsText(buf) ==
    \/ buf = <<>>
    \/ LET d == DecodeRune(buf)
       IN  ~(d.r = RuneError /\ d.n <= 1) /\ IsText(SliceFrom(buf, d.n))

\* a writer was opened with encoding name L on the new file, canonical
\* texts were written, and the file was then read to its end through
\* UTFReader with no explicit name; T is the text written
RoundTripDone(L) ==
    /\ pc = "done"
    /\ ReaderReturned
    /\ u # NoWriter
    /\ encodingName = L
    /\ explicitName = <<>>
    /\ \A i \in 1..Len(written) : IsText(written[i])

ClaimedBom(encName) ==
    IF encName = NameUTF8BOM THEN <<239, 187, 191>>
    ELSE IF encName = NameUTF16LE THEN <<255, 254>>
    ELSE IF encName = NameUTF16BE THEN <<254, 255>>
    ELSE <<>>

\* enc(b1)..enc(bk) of the claim
RECURSIVE ClaimedEnc(_, _)
ClaimedEnc(encName, bufs) ==
    IF bufs = <<>> THEN <<>>
    ELSE (IF encName = NameUTF16LE THEN UTF16Encode(Head(bufs), "le")
          ELSE IF encName = NameUTF16BE THEN UTF16Encode(Head(bufs), "be")
          ELSE Head(bufs))
         \o ClaimedEnc(encName, Tail(bufs))

NthOcc(v, tag, n) ==
    CHOOSE x \in Occurrences(v, tag) :
        Cardinality({y \in Occurrences(v, tag) : y <= x}) = n

\* the maximum position of group n: the highest offset among the n-th
\* occurrences of the tags of G; 0 for the group before the first
GroupMax(v, G, n) ==
    IF n = 0 THEN 0
    ELSE CHOOSE m \in {NthOcc(v, t, n) : t \in G} :
             \A t \in G : NthOcc(v, t, n) <= m

\* checkGenderReceiverPlural rejected the value for its order
OrderIssue ==
    /\ Done("checkGenderReceiverPlural")
    /\ res # <<>>
    /\ res[1] = "gender-plural-incorrect-order"

\* C11: when checkGenderReceiverPlural rejects a value for an ordering
\* violation, the issue names a plural-group index p and a gender tag of the
\* profile whose p-th occurrence lies before the maximum position of group
\* p-1, whatever the order of the tags in the profile's gender list is.
C11_NamesOffendingTag ==
    OrderIssue =>
        LET G == TagSet(conf.genders)
            p == res[2]
            t == res[3]
        IN  /\ p \in 1..conf.plural
            /\ t \in G
            /\ NthOcc(val, t, p) < GroupMax(val, G, p - 1)

=============================================================================
